---- MODULE Spec2Model ----
(***************************************************************************)
(* A model of niimprint's protocol engine (src/niimprint/printer.py): the  *)
(* packet codec, the TCP and serial transports, PrinterClient._transceive, *)
(* the print_image command sequence and the row encoder _encode_image.     *)
(***************************************************************************)
EXTENDS Integers, Sequences, FiniteSets, TLC

VARIABLES
    kind,       \* transport variant behind the client: "tcp" or "serial"
    closed,     \* the TCP peer has closed the connection
    rx,         \* bytes the printer has sent and the client has not read yet
    pending,    \* expected reply types of the requests the printer has not answered
    wire,       \* every write that reached the transport, in order (byte sequences)
    faults,     \* faults the environment has injected so far
    op,         \* the client operation in progress
    t,          \* the _transceive call in progress
    enc,        \* a run of the generator _encode_image
    ser,        \* a construction of SerialTransport
    tr,         \* a call of a transport's read or write
    packetbuf,  \* the client's accumulation buffer self._packetbuf
    rcv,        \* a call of _recv, and the frames the printer sends unasked
    dec,        \* a call of heartbeat or get_rfid on a reply already received
    answered    \* how many requests the printer has answered with a numbered reply

vars ==
    <<kind, closed, rx, pending, wire, faults, op, t, enc, ser, tr, packetbuf, rcv, dec,
      answered>>

----------------------------------------------------------------------------
(* Bounds of the model *)

\* faults (timeouts, bad replies, a closed connection) injected in one run
MaxFaults == 3
\* largest image height of a print job
MaxRows == 2
\* bytes that arrive together on the line
ArrivalChunk == 2
\* largest width and height of an image handed to _encode_image
MaxWidth == 9
MaxHeight == 2
\* most serial devices enumerated
MaxPorts == 3
\* most bytes asked of, or given to, one transport call
MaxLen == 3

----------------------------------------------------------------------------
(* Program constants *)

\* one attempt more than the ceiling
max_retries_one_more == 3 + 1

max_retries == 3
ErrorType == 219
UnimplementedType == 0
PrintLineType == 133

Min(a, b) == IF a < b THEN a ELSE b
Byte == 0..255

----------------------------------------------------------------------------
(* Packet codec: packet.NiimbotPacket *)

RECURSIVE XorBits(_, _, _)
XorBits(a, b, n) ==
    IF n = 0 THEN 0
    ELSE ((a + b) % 2) + 2 * XorBits(a \div 2, b \div 2, n - 1)

RECURSIVE XorAll(_)
XorAll(s) == IF s = <<>> THEN 0 ELSE XorBits(Head(s), XorAll(Tail(s)), 8)

Checksum(type, data) == XorAll(<<type, Len(data)>> \o data)

NiimbotPacket(type, data) == [type |-> type, data |-> data]

to_bytes(p) ==
    <<85, 85, p.type, Len(p.data)>> \o p.data \o <<Checksum(p.type, p.data), 170, 170>>

FrameOk(b) ==
    /\ Len(b) >= 7
    /\ b[1] = 85 /\ b[2] = 85
    /\ b[Len(b) - 1] = 170 /\ b[Len(b)] = 170
    /\ b[4] = Len(b) - 7
    /\ b[Len(b) - 2] = Checksum(b[3], SubSeq(b, 5, Len(b) - 3))

\* the exception from_bytes raises when ~FrameOk(b)
FrameError == "ValueError"

\* the decoded packet; asked for only when FrameOk(b)
from_bytes(b) == NiimbotPacket(b[3], SubSeq(b, 5, Len(b) - 3))

----------------------------------------------------------------------------
(* Image-to-command encoder: PrinterClient._encode_image *)

\* An image is [width, height, pix]: pix[y + 1][x + 1] is the grayscale value
\* (0 = black, 255 = white) of the source pixel (x, y).
getpixel(image, x, y) == image.pix[y + 1][x + 1]

\* ImageOps.invert(image.convert("L")).convert("1") on a black/white source
invert(p) == 255 - p

\* "0" if pix == 0 else "1", for x in range(img.width)
line_bits(image, y) ==
    [x \in 1..image.width |-> IF invert(getpixel(image, x - 1, y)) = 0 THEN 0 ELSE 1]

\* int(line_data, 2)
RECURSIVE int_base2(_)
int_base2(bits) ==
    IF bits = <<>> THEN 0
    ELSE 2 * int_base2(SubSeq(bits, 1, Len(bits) - 1)) + bits[Len(bits)]

\* one byte too many when the width is a multiple of 8
row_bytes_plus_one(w) == w \div 8 + 1

\* math.ceil(img.width / 8)
row_bytes(w) == (w + 7) \div 8

\* int.to_bytes(n, "big")
int_to_bytes(v, n) == [i \in 1..n |-> (v \div (256 ^ (n - i))) % 256]

\* struct.pack(">H", v)
pack_u16_be(v) == <<v \div 256, v % 256>>

\* struct.pack(">H3BB", y, 0, 0, 0, 1)
row_header(y) == pack_u16_be(y) \o <<0, 0, 0>> \o <<1>>

\* the packet _encode_image yields for row y
encode_row(image, y) ==
    NiimbotPacket(PrintLineType,
                  row_header(y)
                  \o int_to_bytes(int_base2(line_bits(image, y)), row_bytes(image.width)))

----------------------------------------------------------------------------
(* Transaction engine: PrinterClient._transceive *)

\* the handler without NotImplementedError
Caught_no_unimplemented == {"ValueError", "ConnectionError"}

\* the exceptions the retry loop catches
Caught == {"ValueError", "ConnectionError", "NotImplementedError"}

\* the expected type tested before the reserved ones
Classify_expected_first(received, respcode) ==
    IF received.type = respcode THEN [exc |-> "ok", why |-> "none"]
    ELSE IF received.type = ErrorType THEN [exc |-> "ValueError", why |-> "error"]
    ELSE IF received.type = UnimplementedType
         THEN [exc |-> "NotImplementedError", why |-> "unimplemented"]
    ELSE [exc |-> "ValueError", why |-> "unexpected"]

\* the type dispatch on a decoded reply: [exc |-> "ok" or the exception raised,
\* why |-> the branch taken]
Classify(received, respcode) ==
    IF received.type = ErrorType THEN [exc |-> "ValueError", why |-> "error"]
    ELSE IF received.type = UnimplementedType
         THEN [exc |-> "NotImplementedError", why |-> "unimplemented"]
    ELSE IF received.type = respcode THEN [exc |-> "ok", why |-> "none"]
    ELSE [exc |-> "ValueError", why |-> "unexpected"]

NoCall ==
    [pc |-> "off", packet |-> NiimbotPacket(0, <<>>), respoffset |-> 0, respcode |-> 0,
     attempt |-> 0, header |-> <<>>, result |-> <<>>, exc |-> "none", ev |-> <<>>,
     recv |-> <<>>, out |-> "none", why |-> "none"]

\* respcode = respoffset + reqcode; packet = NiimbotPacket(reqcode, data)
transceive_call(reqcode, data, respoffset) ==
    [NoCall EXCEPT !.pc = "write", !.packet = NiimbotPacket(reqcode, data),
                   !.respoffset = respoffset, !.respcode = respoffset + reqcode]

\* the except clause of one attempt: retry, give up with None, or propagate
attempt_failed(tt, exc, why, received) ==
    LET u == [tt EXCEPT !.header = <<>>, !.recv = received, !.out = exc, !.why = why] IN
    IF exc \notin Caught
    THEN [u EXCEPT !.pc = "raised", !.exc = exc]
    ELSE IF tt.attempt = max_retries - 1
         THEN [u EXCEPT !.pc = "returned", !.result = <<>>]
         ELSE [u EXCEPT !.pc = "write", !.attempt = @ + 1]

\* return received_packet
attempt_succeeded(tt, received) ==
    [tt EXCEPT !.pc = "returned", !.header = <<>>, !.result = <<received>>,
               !.recv = <<received>>, !.out = "ok", !.why = "none"]

----------------------------------------------------------------------------
(* Transports: TCPTransport and SerialTransport, as the client sees them *)

\* how many of m bytes on their way may have arrived when a call returns:
\* all of them, or a whole number of chunks
Arrived(m) == {m} \cup {j \in 0..m : j % ArrivalChunk = 0}

\* The outcomes of transport.read(n). TCP loops until it holds n bytes and
\* raises ConnectionError when the peer has closed first, dropping what it had
\* read; it blocks (no outcome) while the peer is open and the bytes are not
\* there. Serial returns the bytes that arrived before its timeout, at most n.
read_results(n) ==
    IF kind = "tcp"
    THEN IF Len(rx) >= n
         THEN {[data |-> SubSeq(rx, 1, n), rest |-> SubSeq(rx, n + 1, Len(rx)),
                exc |-> "none", fault |-> 0]}
         ELSE IF closed
              THEN {[data |-> <<>>, rest |-> <<>>, exc |-> "ConnectionError", fault |-> 0]}
              ELSE {}
    ELSE {[data |-> SubSeq(rx, 1, j), rest |-> SubSeq(rx, j + 1, Len(rx)),
           exc |-> "none", fault |-> IF j < n THEN 1 ELSE 0] : j \in Arrived(Min(n, Len(rx)))}

\* The outcomes of transport.write(bytes): what reached the wire, whether the
\* call returned normally, and whether the peer closed during the call.
write_results(bytes) ==
    IF kind = "tcp"
    THEN IF closed
         THEN {[sent |-> <<>>, ok |-> FALSE, closes |-> FALSE, fault |-> 0]}
         ELSE {[sent |-> bytes, ok |-> TRUE, closes |-> FALSE, fault |-> 0]}
              \cup {[sent |-> SubSeq(bytes, 1, k), ok |-> FALSE, closes |-> TRUE,
                     fault |-> 1] : k \in Arrived(Len(bytes)) \ {0, Len(bytes)}}
    ELSE {[sent |-> bytes, ok |-> TRUE, closes |-> FALSE, fault |-> 0]}

\* the log of writes: a write of no bytes leaves no entry, and a write that
\* repeats the last entry (a retry of the same request) is recorded once
Logged(w, sent) ==
    IF sent = <<>> \/ (w # <<>> /\ w[Len(w)] = sent) THEN w ELSE Append(w, sent)

----------------------------------------------------------------------------
(* The printer and the network: the environment of the client *)

Corrupt(bytes, i, v) == [bytes EXCEPT ![i] = v]

\* payloads of a reply of the expected type
ReplyData == {<<1>>, <<0>>}

\* what the printer may put on the line in answer to a request whose reply
\* type is resp: a well-formed reply of that type, or (a fault) one without
\* payload, an error reply, an unimplemented reply, a reply of another type, or
\* a frame damaged in its header, its footer or its checksum
reply_frames(resp) ==
    LET good == to_bytes(NiimbotPacket(resp, <<1>>)) IN
    {[bytes |-> to_bytes(NiimbotPacket(resp, d)), fault |-> 0] : d \in ReplyData}
    \cup {[bytes |-> to_bytes(NiimbotPacket(ty, <<1>>)), fault |-> 1] :
              ty \in {ErrorType, UnimplementedType, resp + 1}}
    \cup {[bytes |-> to_bytes(NiimbotPacket(resp, <<>>)), fault |-> 1],
          [bytes |-> Corrupt(good, 1, 0), fault |-> 1],
          [bytes |-> Corrupt(good, Len(good), 0), fault |-> 1],
          [bytes |-> Corrupt(good, Len(good) - 2, (good[Len(good) - 2] + 1) % 256),
           fault |-> 1]}

----------------------------------------------------------------------------
(* Request-issuing operations of PrinterClient *)

GET_INFO == 64
SET_LABEL_TYPE == 35
SET_LABEL_DENSITY == 33
START_PRINT == 1
END_PRINT == 243
START_PAGE_PRINT == 3
END_PAGE_PRINT == 227
SET_DIMENSION == 19

ByteOrders == {"little", "big"}

\* struct.pack("H", v): native byte order
pack_u16_native(v, bo) == IF bo = "big" THEN <<v \div 256, v % 256>> ELSE <<v % 256, v \div 256>>

\* Each operation: [assert |-> its assertion holds, call |-> its _transceive call]
get_info(key) ==
    [assert |-> TRUE, call |-> transceive_call(GET_INFO, <<key>>, key)]

set_label_type(n) ==
    [assert |-> 1 <= n /\ n <= 3, call |-> transceive_call(SET_LABEL_TYPE, <<n>>, 16)]

set_label_density(n) ==
    [assert |-> 1 <= n /\ n <= 5, call |-> transceive_call(SET_LABEL_DENSITY, <<n>>, 16)]

start_print(total_pages, bo) ==
    [assert |-> 0 <= total_pages /\ total_pages <= 65535,
     call |-> transceive_call(START_PRINT,
                              <<0>> \o pack_u16_native(total_pages % 65536, bo) \o <<0, 0, 0, 0>>,
                              1)]

end_print ==
    [assert |-> TRUE, call |-> transceive_call(END_PRINT, <<1>>, 1)]

start_page_print ==
    [assert |-> TRUE, call |-> transceive_call(START_PAGE_PRINT, <<1>>, 1)]

\* end page print sent with the request code of end print
end_page_print_as_end_print == end_print

end_page_print ==
    [assert |-> TRUE, call |-> transceive_call(END_PAGE_PRINT, <<1>>, 1)]

set_dimension(w, h, copies) ==
    [assert |-> TRUE,
     call |-> transceive_call(SET_DIMENSION,
                              pack_u16_be(w) \o pack_u16_be(h) \o pack_u16_be(copies), 1)]

\* a setter that raises on a false reply
setter_return_strict(tt) ==
    IF tt.pc = "raised" THEN tt.exc
    ELSE IF tt.result = <<>> THEN "AttributeError"
    ELSE IF tt.result[1].data = <<>> THEN "IndexError"
    ELSE IF tt.result[1].data[1] = 0 THEN "RuntimeError"
    ELSE "ok"

\* what a setter does with the value _transceive returned: bool(packet.data[0])
setter_return(tt) ==
    IF tt.pc = "raised" THEN tt.exc
    ELSE IF tt.result = <<>> THEN "AttributeError"
    ELSE IF tt.result[1].data = <<>> THEN "IndexError"
    ELSE "ok"

----------------------------------------------------------------------------
(* Print-job orchestrator: PrinterClient.print_image *)

NoImage == [width |-> 0, height |-> 0, pix |-> <<>>]

Idle ==
    [name |-> "idle", step |-> "none", y |-> 0, image |-> NoImage, density |-> 0,
     copies |-> 0, status |-> "idle", exc |-> "none", zero |-> FALSE]

\* the image's width passed first to set_dimension
step_operation_width_first(o, step, bo) ==
    CASE step = "set_label_density" -> set_label_density(o.density)
      [] step = "set_label_type" -> set_label_type(1)
      [] step = "start_print" -> start_print(o.copies, bo)
      [] step = "start_page_print" -> start_page_print
      [] step = "set_dimension" -> set_dimension(o.image.width, o.image.height, o.copies)
      [] step = "end_page_print" -> end_page_print

\* the operation print_image performs at a step of its sequence
step_operation(o, step, bo) ==
    CASE step = "set_label_density" -> set_label_density(o.density)
      [] step = "set_label_type" -> set_label_type(1)
      [] step = "start_print" -> start_print(o.copies, bo)
      [] step = "start_page_print" -> start_page_print
      [] step = "set_dimension" -> set_dimension(o.image.height, o.image.width, o.copies)
      [] step = "end_page_print" -> end_page_print

\* the rows streamed before the dimensions are set
next_step_rows_first(step) ==
    CASE step = "set_label_density" -> "set_label_type"
      [] step = "set_label_type" -> "start_print"
      [] step = "start_print" -> "start_page_print"
      [] step = "start_page_print" -> "rows"
      [] step = "rows" -> "set_dimension"
      [] step = "set_dimension" -> "end_page_print"
      [] step = "end_page_print" -> "done"

\* the statement that follows each step of print_image
next_step(step) ==
    CASE step = "set_label_density" -> "set_label_type"
      [] step = "set_label_type" -> "start_print"
      [] step = "start_print" -> "start_page_print"
      [] step = "start_page_print" -> "set_dimension"
      [] step = "set_dimension" -> "rows"
      [] step = "rows" -> "end_page_print"
      [] step = "end_page_print" -> "done"

\* print_image reaches a step: the client and its _transceive call afterwards
enter_step(o, step, bo) ==
    IF step = "done"
    THEN [op |-> [o EXCEPT !.step = "done", !.status = "done"], t |-> NoCall]
    ELSE IF step = "rows" /\ o.y < o.image.height
    THEN [op |-> [o EXCEPT !.step = "rows"], t |-> NoCall]
    ELSE LET s == IF step = "rows" THEN next_step("rows") ELSE step
             f == step_operation(o, s, bo)
         IN IF f.assert
            THEN [op |-> [o EXCEPT !.step = s], t |-> f.call]
            ELSE [op |-> [o EXCEPT !.step = s, !.status = "raised",
                                   !.exc = "AssertionError"],
                  t |-> NoCall]

----------------------------------------------------------------------------
(* Inputs *)

\* an image of one grey level
flat_image(w, h, g) == [width |-> w, height |-> h, pix |-> [y \in 1..h |-> [x \in 1..w |-> g]]]

JobImages == {flat_image(9, MaxRows, 0)}
DensityInputs == {3, 6}
CopyInputs == {2}
InfoKeys == {8, 155}

----------------------------------------------------------------------------
(* Actions of the client *)

NoEncoding == [image |-> NoImage, y |-> 0, out |-> <<>>]
NoSerial ==
    [port |-> "auto", comports |-> <<>>, pc |-> "off", opened |-> "none",
     error |-> "none", listed |-> <<>>]
NoTransportCall ==
    [variant |-> "tcp", call |-> "none", length |-> 0, bytes |-> <<>>, line |-> <<>>,
     eof |-> FALSE, room |-> 0, data |-> <<>>, total_sent |-> 0, chunks |-> 0,
     pc |-> "off"]
NoRecv == [pc |-> "off", stream |-> <<>>, packets |-> <<>>, exc |-> "none", calls |-> 0]
NoDecode ==
    [call |-> "none", packet |-> <<>>, known |-> <<>>, pc |-> "off", result |-> <<>>,
     exc |-> "none"]

\* a PrinterClient on an open transport, nothing sent or received yet
ClientInit ==
    /\ closed = FALSE
    /\ rx = <<>>
    /\ pending = <<>>
    /\ wire = <<>>
    /\ faults = 0
    /\ op = Idle
    /\ t = NoCall
    /\ packetbuf = <<>>
    /\ answered = 0

Init ==
    /\ rcv = NoRecv
    /\ dec = NoDecode
    /\ kind \in {"tcp", "serial"}
    /\ ClientInit
    /\ enc = NoEncoding
    /\ ser = NoSerial
    /\ tr = NoTransportCall

\* printer.get_info(key) is called
call_get_info ==
    /\ op.name = "idle"
    /\ \E key \in InfoKeys :
          /\ op' = [Idle EXCEPT !.name = "get_info", !.step = "get_info", !.status = "running"]
          /\ t' = get_info(key).call
    /\ UNCHANGED <<answered, packetbuf, rcv, dec, kind, closed, rx, pending, wire, faults, enc, ser, tr>>

\* get_info: the value of _transceive is decoded or None is returned
get_info_return ==
    /\ op.name = "get_info" /\ op.status = "running"
    /\ t.pc \in {"returned", "raised"}
    /\ op' = [op EXCEPT !.status = IF t.pc = "raised" THEN "raised" ELSE "done",
                        !.exc = t.exc]
    /\ t' = NoCall
    /\ UNCHANGED <<answered, packetbuf, rcv, dec, kind, closed, rx, pending, wire, faults, enc, ser, tr>>

\* printer.print_image(image, density, copies) is called: up to the first write
call_print_image ==
    /\ op.name = "idle"
    /\ \E image \in JobImages, density \in DensityInputs, copies \in CopyInputs,
          bo \in ByteOrders :
          LET o == [Idle EXCEPT !.name = "print_image", !.status = "running",
                                !.image = image, !.density = density, !.copies = copies]
              e == enter_step(o, "set_label_density", bo)
          IN op' = e.op /\ t' = e.t
    /\ UNCHANGED <<answered, packetbuf, rcv, dec, kind, closed, rx, pending, wire, faults, enc, ser, tr>>

\* one attempt begins: self._transport.write(packet.to_bytes())
transceive_write ==
    /\ t.pc = "write"
    /\ \E w \in write_results(to_bytes(t.packet)) :
          LET tt == [t EXCEPT !.ev = Append(@, "w"), !.recv = <<>>, !.out = "none",
                               !.why = "none"] IN
          /\ faults + w.fault <= MaxFaults
          /\ faults' = faults + w.fault
          /\ wire' = Logged(wire, w.sent)
          /\ closed' = (closed \/ w.closes)
          /\ pending' = IF w.ok THEN Append(pending, t.respcode) ELSE pending
          /\ t' = IF w.ok THEN [tt EXCEPT !.pc = "header"]
                  ELSE attempt_failed(tt, "ConnectionError", "write", <<>>)
    /\ UNCHANGED <<answered, packetbuf, rcv, dec, kind, rx, op, enc, ser, tr>>

\* the header read through the accumulation buffer
transceive_read_header_buffered ==
    /\ t.pc = "header"
    /\ \E r \in read_results(4) :
          LET tt == [t EXCEPT !.ev = Append(@, "r")] IN
          /\ faults + r.fault <= MaxFaults
          /\ faults' = faults + r.fault
          /\ rx' = r.rest
          /\ packetbuf' = packetbuf \o r.data
          /\ t' = IF r.exc # "none" THEN attempt_failed(tt, r.exc, "read", <<>>)
                  ELSE IF Len(r.data) # 4 \/ SubSeq(r.data, 1, 2) # <<85, 85>>
                       THEN attempt_failed(tt, "ValueError", "header", <<>>)
                       ELSE [tt EXCEPT !.pc = "rest", !.header = r.data]
    /\ UNCHANGED <<answered, rcv, dec, kind, closed, pending, wire, op, enc, ser, tr>>

\* header = self._transport.read(4), and the check of its length and magic
transceive_read_header ==
    /\ t.pc = "header"
    /\ \E r \in read_results(4) :
          LET tt == [t EXCEPT !.ev = Append(@, "r")] IN
          /\ faults + r.fault <= MaxFaults
          /\ faults' = faults + r.fault
          /\ rx' = r.rest
          /\ t' = IF r.exc # "none" THEN attempt_failed(tt, r.exc, "read", <<>>)
                  ELSE IF Len(r.data) # 4 \/ SubSeq(r.data, 1, 2) # <<85, 85>>
                       THEN attempt_failed(tt, "ValueError", "header", <<>>)
                       ELSE [tt EXCEPT !.pc = "rest", !.header = r.data]
    /\ UNCHANGED <<answered, packetbuf, rcv, dec, kind, closed, pending, wire, op, enc, ser, tr>>

\* rest_of_packet = self._transport.read(data_length + 3), the decoding of the
\* frame and the dispatch on its type
transceive_read_rest ==
    /\ t.pc = "rest"
    /\ \E r \in read_results(t.header[4] + 3) :
          LET tt == [t EXCEPT !.ev = Append(@, "r")]
              full == t.header \o r.data
          IN
          /\ faults + r.fault <= MaxFaults
          /\ faults' = faults + r.fault
          /\ rx' = r.rest
          /\ t' = IF r.exc # "none" THEN attempt_failed(tt, r.exc, "read", <<>>)
                  ELSE IF Len(r.data) # t.header[4] + 3
                       THEN attempt_failed(tt, "ValueError", "incomplete", <<>>)
                       ELSE IF ~FrameOk(full)
                       THEN attempt_failed(tt, FrameError, "decode", <<>>)
                       ELSE LET c == Classify(from_bytes(full), t.respcode) IN
                            IF c.exc = "ok" THEN attempt_succeeded(tt, from_bytes(full))
                            ELSE attempt_failed(tt, c.exc, c.why, <<from_bytes(full)>>)
    /\ UNCHANGED <<answered, packetbuf, rcv, dec, kind, closed, pending, wire, op, enc, ser, tr>>

\* print_image going on to its next statement whatever _transceive returned
print_image_step_ignoring_failure ==
    /\ op.name = "print_image" /\ op.status = "running"
    /\ t.pc \in {"returned", "raised"}
    /\ \E bo \in ByteOrders :
          LET e == enter_step(op, next_step(op.step), bo)
          IN op' = e.op /\ t' = e.t
    /\ UNCHANGED <<answered, packetbuf, rcv, dec, kind, closed, rx, pending, wire, faults, enc, ser, tr>>

\* print_image: a step's _transceive is over; the setter reads the reply's
\* first byte and print_image goes on to its next statement
print_image_step ==
    /\ op.name = "print_image" /\ op.status = "running"
    /\ t.pc \in {"returned", "raised"}
    /\ LET r == setter_return(t) IN
       IF r # "ok"
       THEN /\ op' = [op EXCEPT !.status = "raised", !.exc = r]
            /\ t' = NoCall
       ELSE \E bo \in ByteOrders :
               LET o == [op EXCEPT !.zero = @ \/ (op.step # "end_page_print"
                                                   /\ t.result[1].data = <<0>>)]
                   e == enter_step(o, next_step(op.step), bo)
               IN op' = e.op /\ t' = e.t
    /\ UNCHANGED <<answered, packetbuf, rcv, dec, kind, closed, rx, pending, wire, faults, enc, ser, tr>>

\* a row sent as a request whose reply is awaited
send_row_acknowledged ==
    /\ op.name = "print_image" /\ op.status = "running"
    /\ op.step = "rows" /\ t.pc = "off"
    /\ op' = [op EXCEPT !.y = @ + 1]
    /\ t' = transceive_call(PrintLineType, encode_row(op.image, op.y).data, 1)
    /\ UNCHANGED <<answered, packetbuf, rcv, dec, kind, closed, rx, pending, wire, faults, enc, ser, tr>>

\* print_image: self._send(pkt) for the next row of the image
send_row ==
    /\ op.name = "print_image" /\ op.status = "running"
    /\ op.step = "rows" /\ t.pc = "off"
    /\ \E w \in write_results(to_bytes(encode_row(op.image, op.y))), bo \in ByteOrders :
          /\ faults + w.fault <= MaxFaults
          /\ faults' = faults + w.fault
          /\ wire' = Logged(wire, w.sent)
          /\ closed' = (closed \/ w.closes)
          /\ IF w.ok
             THEN LET e == enter_step([op EXCEPT !.y = @ + 1], "rows", bo)
                  IN op' = e.op /\ t' = e.t
             ELSE /\ op' = [op EXCEPT !.status = "raised", !.exc = "ConnectionError"]
                  /\ t' = t
    /\ UNCHANGED <<answered, packetbuf, rcv, dec, kind, rx, pending, enc, ser, tr>>

----------------------------------------------------------------------------
(* Actions of the environment *)

\* the printer answers the oldest request it has not answered
printer_reply ==
    /\ pending # <<>>
    /\ ~closed
    /\ \E f \in reply_frames(Head(pending)) :
          /\ faults + f.fault <= MaxFaults
          /\ faults' = faults + f.fault
          /\ rx' = rx \o f.bytes
    /\ pending' = Tail(pending)
    /\ UNCHANGED <<answered, packetbuf, rcv, dec, kind, closed, wire, op, t, enc, ser, tr>>

\* the TCP peer closes the connection
peer_close ==
    /\ kind = "tcp" /\ ~closed
    /\ op.status = "running"
    /\ faults < MaxFaults
    /\ faults' = faults + 1
    /\ closed' = TRUE
    /\ UNCHANGED <<answered, packetbuf, rcv, dec, kind, rx, pending, wire, op, t, enc, ser, tr>>

Next ==
    \/ call_get_info
    \/ get_info_return
    \/ call_print_image
    \/ transceive_write
    \/ transceive_read_header
    \/ transceive_read_rest
    \/ print_image_step
    \/ send_row
    \/ printer_reply
    \/ peer_close

Spec == Init /\ [][Next]_vars

----------------------------------------------------------------------------
(* The client with a printer that sends only well-formed frames *)

\* the printer answers the oldest request it has not answered with a frame
\* that decodes: the reply, one without payload, an error or unimplemented
\* reply or a reply of another type
printer_reply_well_formed ==
    /\ pending # <<>>
    /\ ~closed
    /\ \E f \in {g \in reply_frames(Head(pending)) : FrameOk(g.bytes)} :
          /\ faults + f.fault <= MaxFaults
          /\ faults' = faults + f.fault
          /\ rx' = rx \o f.bytes
    /\ pending' = Tail(pending)
    /\ UNCHANGED <<answered, packetbuf, rcv, dec, kind, closed, wire, op, t, enc, ser, tr>>

NextAligned ==
    \/ call_get_info
    \/ get_info_return
    \/ call_print_image
    \/ transceive_write
    \/ transceive_read_header
    \/ transceive_read_rest
    \/ print_image_step
    \/ send_row
    \/ printer_reply_well_formed
    \/ peer_close

SpecAligned == Init /\ [][NextAligned]_vars

----------------------------------------------------------------------------
(* A run of get_info calls with a printer that answers every request once *)

\* requests written in one run
MaxRequests == 4

\* the requests that have reached the printer so far, answered or not
Received == answered + Len(pending)

\* printer.get_info(key) is called again after an earlier call has returned
call_get_info_again ==
    /\ op.name = "get_info" /\ op.status = "done"
    /\ t.pc = "off"
    /\ Received < MaxRequests
    /\ \E key \in InfoKeys :
          /\ op' = [op EXCEPT !.status = "running"]
          /\ t' = get_info(key).call
    /\ UNCHANGED <<answered, packetbuf, rcv, dec, kind, closed, rx, pending, wire, faults,
                   enc, ser, tr>>

\* the printer answers the oldest request it has not answered, sooner or
\* later, with a reply of the expected type whose value is the number of the
\* request it answers
printer_reply_numbered ==
    /\ pending # <<>>
    /\ ~closed
    /\ rx' = rx \o to_bytes(NiimbotPacket(Head(pending), <<answered + 1>>))
    /\ answered' = answered + 1
    /\ pending' = Tail(pending)
    /\ UNCHANGED <<packetbuf, rcv, dec, kind, closed, wire, faults, op, t, enc, ser, tr>>

NextStale ==
    \/ call_get_info
    \/ call_get_info_again
    \/ get_info_return
    \/ transceive_write
    \/ transceive_read_header
    \/ transceive_read_rest
    \/ printer_reply_numbered
    \/ peer_close

SpecStale == Init /\ [][NextStale]_vars

----------------------------------------------------------------------------
(* _encode_image run on its own: one packet is yielded per step *)

\* rows of width w with at most one pixel unlike the others
EncRows(w) ==
    {[x \in 1..w |-> IF x = k THEN a ELSE b] : k \in 0..w, a \in {0, 255}, b \in {0, 255}}

EncImages ==
    UNION {{[width |-> w, height |-> h, pix |-> p] : p \in [1..h -> EncRows(w)]} :
              w \in 1..MaxWidth, h \in 0..MaxHeight}

InitEncode ==
    /\ rcv = NoRecv
    /\ dec = NoDecode
    /\ kind = "tcp"
    /\ ClientInit
    /\ ser = NoSerial
    /\ tr = NoTransportCall
    /\ \E image \in EncImages : enc = [image |-> image, y |-> 0, out |-> <<>>]

\* for y in range(img.height): ... yield pkt
encode_image_next ==
    /\ enc.y < enc.image.height
    /\ enc' = [enc EXCEPT !.y = @ + 1, !.out = Append(@, encode_row(enc.image, enc.y))]
    /\ UNCHANGED <<answered, packetbuf, rcv, dec, kind, closed, rx, pending, wire, faults, op, t, ser, tr>>

NextEncode == encode_image_next

SpecEncode == InitEncode /\ [][NextEncode]_vars

----------------------------------------------------------------------------
(* SerialTransport.__init__ and _detect_port *)

Devices == {"/dev/ttyACM0", "/dev/ttyUSB0", "COM3"}

\* what list_comports() may return: (port, desc, hwid) of distinct devices
PortLists ==
    {[i \in 1..Len(s) |-> <<s[i], "desc", "hwid">>] :
        s \in {q \in UNION {[1..n -> Devices] : n \in 0..MaxPorts} :
                  \A i, j \in 1..Len(q) : q[i] = q[j] => i = j}}

\* the ambiguity test off by one
detect_port_two_allowed(all_ports) ==
    IF Len(all_ports) = 0
    THEN [port |-> "none", error |-> "No serial ports detected", listed |-> <<>>]
    ELSE IF Len(all_ports) > 2
    THEN [port |-> "none", error |-> "Too many serial ports, please select specific one:",
          listed |-> [i \in 1..Len(all_ports) |-> all_ports[i]]]
    ELSE [port |-> all_ports[1][1], error |-> "none", listed |-> <<>>]

\* _detect_port: the port chosen, or the RuntimeError raised and the
\* candidates its message lists
detect_port(all_ports) ==
    IF Len(all_ports) = 0
    THEN [port |-> "none", error |-> "No serial ports detected", listed |-> <<>>]
    ELSE IF Len(all_ports) > 1
    THEN [port |-> "none", error |-> "Too many serial ports, please select specific one:",
          listed |-> [i \in 1..Len(all_ports) |-> all_ports[i]]]
    ELSE [port |-> all_ports[1][1], error |-> "none", listed |-> <<>>]

\* port = port if port != "auto" else self._detect_port()
chosen_port(port, all_ports) ==
    IF port # "auto" THEN [port |-> port, error |-> "none", listed |-> <<>>]
    ELSE detect_port(all_ports)

InitSerial ==
    /\ rcv = NoRecv
    /\ dec = NoDecode
    /\ kind = "serial"
    /\ ClientInit
    /\ enc = NoEncoding
    /\ tr = NoTransportCall
    /\ \E port \in {"auto"} \cup Devices, all_ports \in PortLists :
          ser = [NoSerial EXCEPT !.port = port, !.comports = all_ports, !.pc = "new"]

\* SerialTransport(port): the port is chosen and serial.Serial opens it
serial_init ==
    /\ ser.pc = "new"
    /\ LET c == chosen_port(ser.port, ser.comports) IN
       ser' = IF c.error # "none"
              THEN [ser EXCEPT !.pc = "failed", !.error = c.error, !.listed = c.listed]
              ELSE [ser EXCEPT !.pc = "open", !.opened = c.port]
    /\ UNCHANGED <<answered, packetbuf, rcv, dec, kind, closed, rx, pending, wire, faults, op, t, enc, tr>>

NextSerial == serial_init

SpecSerial == InitSerial /\ [][NextSerial]_vars

----------------------------------------------------------------------------
(* TCPTransport.read / write and SerialTransport.read / write, call by call *)

\* the bytes 1, 2, ..., n
Counting(n) == [i \in 1..n |-> i]

InitTransport ==
    /\ rcv = NoRecv
    /\ dec = NoDecode
    /\ kind = "tcp"
    /\ ClientInit
    /\ enc = NoEncoding
    /\ ser = NoSerial
    /\ \E variant \in {"tcp", "serial"} :
          \/ \E length \in 0..MaxLen, have \in 0..(MaxLen + 1), eof \in BOOLEAN :
                tr = [NoTransportCall EXCEPT !.variant = variant, !.call = "read",
                                             !.length = length, !.line = Counting(have),
                                             !.eof = eof, !.pc = "call"]
          \/ \E n \in 0..MaxLen, room \in 0..MaxLen :
                tr = [NoTransportCall EXCEPT !.variant = variant, !.call = "write",
                                             !.bytes = Counting(n), !.room = room,
                                             !.pc = "call"]

\* the loop left as soon as anything has been read
tcp_read_more_first_chunk(data, length) == Len(data) = 0 /\ length > 0

\* while len(data) < length
tcp_read_more(data, length) == Len(data) < length

\* the loop left one byte early
tcp_write_more_but_last(total_sent, data) == total_sent + 1 < Len(data)

\* while total_sent < len(data)
tcp_write_more(total_sent, data) == total_sent < Len(data)

\* TCPTransport.read is entered: data = b"" and the first test of the loop
tcp_read_enter ==
    /\ tr.variant = "tcp" /\ tr.call = "read" /\ tr.pc = "call"
    /\ tr' = [tr EXCEPT !.pc = IF tcp_read_more(<<>>, tr.length) THEN "recv" ELSE "returned"]
    /\ UNCHANGED <<answered, packetbuf, rcv, dec, kind, closed, rx, pending, wire, faults, op, t, enc, ser>>

\* chunk = self._sock.recv(length - len(data)) and the rest of the iteration:
\* recv gives between 1 and the asked number of the bytes on the line, or
\* nothing once the peer has closed; it blocks while the line is empty and open
tcp_read_recv ==
    /\ tr.variant = "tcp" /\ tr.call = "read" /\ tr.pc = "recv"
    /\ IF tr.line = <<>>
       THEN /\ tr.eof
            /\ tr' = [tr EXCEPT !.pc = "ConnectionError"]
       ELSE \E c \in 1..Min(tr.length - Len(tr.data), Len(tr.line)) :
               LET data == tr.data \o SubSeq(tr.line, 1, c) IN
               tr' = [tr EXCEPT !.data = data,
                                !.line = SubSeq(tr.line, c + 1, Len(tr.line)),
                                !.chunks = @ + 1,
                                !.pc = IF tcp_read_more(data, tr.length) THEN "recv"
                                       ELSE "returned"]
    /\ UNCHANGED <<answered, packetbuf, rcv, dec, kind, closed, rx, pending, wire, faults, op, t, enc, ser>>

\* TCPTransport.write is entered: total_sent = 0 and the first test of the loop
tcp_write_enter ==
    /\ tr.variant = "tcp" /\ tr.call = "write" /\ tr.pc = "call"
    /\ tr' = [tr EXCEPT !.pc = IF tcp_write_more(0, tr.bytes) THEN "send" ELSE "returned"]
    /\ UNCHANGED <<answered, packetbuf, rcv, dec, kind, closed, rx, pending, wire, faults, op, t, enc, ser>>

\* sent = self._sock.send(data[total_sent:]) and the rest of the iteration:
\* send takes between 1 and all of the bytes offered while the peer has room,
\* and reports 0 once the peer has closed
tcp_write_send ==
    /\ tr.variant = "tcp" /\ tr.call = "write" /\ tr.pc = "send"
    /\ IF tr.room = 0
       THEN tr' = [tr EXCEPT !.pc = "ConnectionError"]
       ELSE \E sent \in 1..Min(Len(tr.bytes) - tr.total_sent, tr.room) :
               tr' = [tr EXCEPT !.total_sent = @ + sent,
                                !.line = @ \o SubSeq(tr.bytes, tr.total_sent + 1,
                                                     tr.total_sent + sent),
                                !.room = @ - sent,
                                !.chunks = @ + 1,
                                !.pc = IF tcp_write_more(tr.total_sent + sent, tr.bytes)
                                       THEN "send" ELSE "returned"]
    /\ UNCHANGED <<answered, packetbuf, rcv, dec, kind, closed, rx, pending, wire, faults, op, t, enc, ser>>

\* SerialTransport.read: self._serial.read(length) on a port opened with
\* timeout=0.5 returns the bytes that arrived in time, at most length of them
serial_read ==
    /\ tr.variant = "serial" /\ tr.call = "read" /\ tr.pc = "call"
    /\ \E j \in 0..Min(tr.length, Len(tr.line)) :
          tr' = [tr EXCEPT !.data = SubSeq(tr.line, 1, j),
                           !.line = SubSeq(tr.line, j + 1, Len(tr.line)),
                           !.chunks = 1,
                           !.pc = "returned"]
    /\ UNCHANGED <<answered, packetbuf, rcv, dec, kind, closed, rx, pending, wire, faults, op, t, enc, ser>>

\* SerialTransport.write: self._serial.write(data) on a port opened without a
\* write timeout blocks until every byte is written
serial_write ==
    /\ tr.variant = "serial" /\ tr.call = "write" /\ tr.pc = "call"
    /\ tr' = [tr EXCEPT !.total_sent = Len(tr.bytes), !.line = tr.bytes, !.chunks = 1,
                        !.pc = "returned"]
    /\ UNCHANGED <<answered, packetbuf, rcv, dec, kind, closed, rx, pending, wire, faults, op, t, enc, ser>>

NextTransport ==
    \/ tcp_read_enter
    \/ tcp_read_recv
    \/ tcp_write_enter
    \/ tcp_write_send
    \/ serial_read
    \/ serial_write

SpecTransport == InitTransport /\ [][NextTransport]_vars

\* the same calls, each loop iteration taken sooner or later: a primitive that
\* can return does return
SpecTransportLive == SpecTransport /\ WF_vars(NextTransport)

----------------------------------------------------------------------------
(* Reply decoders: PrinterClient.heartbeat and PrinterClient.get_rfid *)

HEARTBEAT == 220
GET_RFID == 26

\* longest reply payload handed to heartbeat
MaxPayload == 21
\* longest barcode and serial text of an RFID reply
MaxText == 2

\* None
Unset == <<>>

\* packet.data[o], or None for a field the case does not assign (o = -1)
field(data, o) == IF o < 0 THEN Unset ELSE <<data[o + 1]>>

NoFields == [closingstate |-> -1, powerlevel |-> -1, paperstate |-> -1, rfidreadstate |-> -1]

\* a payload of any length decoded like the 9-byte one
heartbeat_fields_nine_by_default(n) ==
    CASE n = 20 -> [NoFields EXCEPT !.paperstate = 18, !.rfidreadstate = 19]
      [] n = 13 -> [closingstate |-> 9, powerlevel |-> 10, paperstate |-> 11,
                    rfidreadstate |-> 12]
      [] n = 19 -> [closingstate |-> 15, powerlevel |-> 16, paperstate |-> 17,
                    rfidreadstate |-> 18]
      [] n = 10 -> [NoFields EXCEPT !.closingstate = 8, !.powerlevel = 9,
                                    !.rfidreadstate = 8]
      [] n >= 9 /\ n \notin {20, 13, 19, 10} -> [NoFields EXCEPT !.closingstate = 8]
      [] OTHER -> NoFields

\* the 19-byte payload decoded one byte early
heartbeat_fields_nineteen_shifted(n) ==
    CASE n = 20 -> [NoFields EXCEPT !.paperstate = 18, !.rfidreadstate = 19]
      [] n = 13 -> [closingstate |-> 9, powerlevel |-> 10, paperstate |-> 11,
                    rfidreadstate |-> 12]
      [] n = 19 -> [closingstate |-> 14, powerlevel |-> 15, paperstate |-> 16,
                    rfidreadstate |-> 17]
      [] n = 10 -> [NoFields EXCEPT !.closingstate = 8, !.powerlevel = 9,
                                    !.rfidreadstate = 8]
      [] n = 9 -> [NoFields EXCEPT !.closingstate = 8]
      [] OTHER -> NoFields

\* match len(packet.data): the offset each case reads each field from
heartbeat_fields(n) ==
    CASE n = 20 -> [NoFields EXCEPT !.paperstate = 18, !.rfidreadstate = 19]
      [] n = 13 -> [closingstate |-> 9, powerlevel |-> 10, paperstate |-> 11,
                    rfidreadstate |-> 12]
      [] n = 19 -> [closingstate |-> 15, powerlevel |-> 16, paperstate |-> 17,
                    rfidreadstate |-> 18]
      [] n = 10 -> [NoFields EXCEPT !.closingstate = 8, !.powerlevel = 9,
                                    !.rfidreadstate = 8]
      [] n = 9 -> [NoFields EXCEPT !.closingstate = 8]
      [] OTHER -> NoFields

\* heartbeat() past its _transceive call, whose value is result (<<>> is None):
\* [exc |-> "none" or the exception raised, value |-> the dictionary returned]
heartbeat(result) ==
    IF result = <<>> THEN [exc |-> "AttributeError", value |-> <<>>]
    ELSE LET data == result[1].data
             f == heartbeat_fields(Len(data))
         IN [exc |-> "none",
             value |-> <<[closingstate |-> field(data, f.closingstate),
                          powerlevel |-> field(data, f.powerlevel),
                          paperstate |-> field(data, f.paperstate),
                          rfidreadstate |-> field(data, f.rfidreadstate)]>>]

HexDigits == <<"0", "1", "2", "3", "4", "5", "6", "7", "8", "9", "a", "b", "c", "d", "e", "f">>

\* bytes.hex(): two digits for each byte, the high nibble first
RECURSIVE hex(_)
hex(b) ==
    IF b = <<>> THEN <<>>
    ELSE <<HexDigits[Head(b) \div 16 + 1], HexDigits[(Head(b) % 16) + 1]>> \o hex(Tail(b))

\* the characters of the texts used here and their UTF-8 (one-byte) codes
Chars == {"0", "1", "A", "Z"}
ord(c) == CASE c = "0" -> 48 [] c = "1" -> 49 [] c = "A" -> 65 [] c = "Z" -> 90
chr(b) == CHOOSE c \in Chars : ord(c) = b

\* str.encode(): a text is a sequence of characters
encode(text) == [i \in 1..Len(text) |-> ord(text[i])]

\* the bytes the decoder is fed have a character here, or are 0xFF, which no
\* UTF-8 text contains
Decodable(b) == \A i \in 1..Len(b) : \E c \in Chars : ord(c) = b[i]

\* bytes.decode(), asked for only when Decodable(b)
decode(b) == [i \in 1..Len(b) |-> chr(b[i])]

\* data[i:j]: a slice stops at the end of the data
slice(data, i, j) == SubSeq(data, i + 1, Min(j, Len(data)))

\* struct.unpack(">H", b)
unpack_u16_be(b) == 256 * b[1] + b[2]

\* the trailer read as little-endian numbers
unpack_trailer_little_endian(b) ==
    [total_len |-> b[1] + 256 * b[2], used_len |-> b[3] + 256 * b[4], type |-> b[5]]

\* struct.unpack(">HHB", b) as total_len, used_len, type_
unpack_trailer(b) ==
    [total_len |-> unpack_u16_be(SubSeq(b, 1, 2)),
     used_len |-> unpack_u16_be(SubSeq(b, 3, 4)),
     type |-> b[5]]

\* get_rfid() past its _transceive call, whose value is result (<<>> is None):
\* [exc |-> "none" or the exception raised, value |-> <<>> for None or the
\* dictionary returned]
get_rfid(result) ==
    IF result = <<>> THEN [exc |-> "AttributeError", value |-> <<>>]
    ELSE LET data == result[1].data IN
    IF data = <<>> THEN [exc |-> "IndexError", value |-> <<>>]
    ELSE IF data[1] = 0 THEN [exc |-> "none", value |-> <<>>]
    ELSE IF Len(data) <= 8 THEN [exc |-> "IndexError", value |-> <<>>]
    ELSE LET barcode_len == data[9]
             idx1 == 9
             bc == slice(data, idx1, idx1 + barcode_len)
             idx2 == idx1 + barcode_len
         IN
    IF ~Decodable(bc) THEN [exc |-> "UnicodeDecodeError", value |-> <<>>]
    ELSE IF Len(data) <= idx2 THEN [exc |-> "IndexError", value |-> <<>>]
    ELSE LET serial_len == data[idx2 + 1]
             idx3 == idx2 + 1
             sn == slice(data, idx3, idx3 + serial_len)
             idx4 == idx3 + serial_len
             trailer == slice(data, idx4, Len(data))
         IN
    IF ~Decodable(sn) THEN [exc |-> "UnicodeDecodeError", value |-> <<>>]
    ELSE IF Len(trailer) # 5 THEN [exc |-> "struct.error", value |-> <<>>]
    ELSE [exc |-> "none",
          value |-> <<[uuid |-> hex(slice(data, 0, 8)),
                       barcode |-> decode(bc),
                       serial |-> decode(sn),
                       used_len |-> unpack_trailer(trailer).used_len,
                       total_len |-> unpack_trailer(trailer).total_len,
                       type |-> unpack_trailer(trailer).type]>>]

\* a heartbeat reply payload of n bytes, no two of them alike
HeartbeatPayload(n) == [i \in 1..n |-> 100 + i]

\* the values an RFID reply is built from
Texts == UNION {[1..n -> {"A", "1"}] : n \in 0..MaxText}
Uuids == {<<222, 173, 190, 239, 1, 2, 3, 4>>, <<0, 173, 190, 239, 1, 2, 3, 4>>}
KnownTags ==
    [uuid : Uuids, barcode : Texts, serial : {<<>>, <<"Z">>, <<"0", "Z">>},
     total_len : {258}, used_len : {3, 4096}, type : {0, 255}]

\* the payload of the reply a tag with these values is reported in
RfidPayload(k) ==
    k.uuid \o <<Len(k.barcode)>> \o encode(k.barcode) \o <<Len(k.serial)>> \o encode(k.serial)
    \o pack_u16_be(k.total_len) \o pack_u16_be(k.used_len) \o <<k.type>>

\* payloads no tag is reported in: none, cut short, with a byte that is no text
OddRfidPayloads ==
    {<<>>, <<0>>, <<1, 2, 3>>, <<1, 2, 3, 4, 5, 6, 7, 8, 1>>,
     <<1, 2, 3, 4, 5, 6, 7, 8, 1, 255, 0, 0, 0, 0, 0, 0>>,
     <<1, 2, 3, 4, 5, 6, 7, 8, 0, 0, 1, 2, 0, 3>>}

InitDecode ==
    /\ kind = "tcp"
    /\ ClientInit
    /\ enc = NoEncoding
    /\ ser = NoSerial
    /\ tr = NoTransportCall
    /\ rcv = NoRecv
    /\ \/ \E n \in 0..MaxPayload :
             dec = [NoDecode EXCEPT !.call = "heartbeat", !.pc = "transceived",
                       !.packet = <<NiimbotPacket(HEARTBEAT + 1, HeartbeatPayload(n))>>]
       \/ \E k \in KnownTags :
             dec = [NoDecode EXCEPT !.call = "get_rfid", !.pc = "transceived",
                       !.known = <<k>>,
                       !.packet = <<NiimbotPacket(GET_RFID + 1, RfidPayload(k))>>]
       \/ \E d \in OddRfidPayloads :
             dec = [NoDecode EXCEPT !.call = "get_rfid", !.pc = "transceived",
                       !.packet = <<NiimbotPacket(GET_RFID + 1, d)>>]
       \/ \E c \in {"heartbeat", "get_rfid"} :
             dec = [NoDecode EXCEPT !.call = c, !.pc = "transceived"]

\* heartbeat(): from the value of _transceive to the return
heartbeat_decode ==
    /\ dec.call = "heartbeat" /\ dec.pc = "transceived"
    /\ LET r == heartbeat(dec.packet) IN
       dec' = [dec EXCEPT !.pc = IF r.exc = "none" THEN "returned" ELSE "raised",
                          !.result = r.value, !.exc = r.exc]
    /\ UNCHANGED <<answered, packetbuf, rcv, kind, closed, rx, pending, wire, faults, op, t, enc, ser, tr>>

\* get_rfid(): from the value of _transceive to the return
get_rfid_decode ==
    /\ dec.call = "get_rfid" /\ dec.pc = "transceived"
    /\ LET r == get_rfid(dec.packet) IN
       dec' = [dec EXCEPT !.pc = IF r.exc = "none" THEN "returned" ELSE "raised",
                          !.result = r.value, !.exc = r.exc]
    /\ UNCHANGED <<answered, packetbuf, rcv, kind, closed, rx, pending, wire, faults, op, t, enc, ser, tr>>

NextDecode ==
    \/ heartbeat_decode
    \/ get_rfid_decode

SpecDecode == InitDecode /\ [][NextDecode]_vars

----------------------------------------------------------------------------
(* The unsolicited-read path: PrinterClient._recv and the buffer it owns *)

\* self._transport.read(1024)
ReadSize == 1024

\* calls of _recv before the client issues a request
MaxRecvCalls == 2

\* what the printer sends unasked: two frames, or a frame whose checksum is off
Streams ==
    {to_bytes(NiimbotPacket(221, <<1>>)) \o to_bytes(NiimbotPacket(222, <<>>)),
     Corrupt(to_bytes(NiimbotPacket(221, <<1>>)), 6, 0)}

\* a PrinterClient just constructed, the printer about to send on its own;
\* the requests that follow the _recv calls meet no fault but the bytes the
\* _recv calls left on the line
InitRecv ==
    /\ kind \in {"tcp", "serial"}
    /\ closed = FALSE
    /\ rx = <<>>
    /\ pending = <<>>
    /\ wire = <<>>
    /\ faults = MaxFaults
    /\ op = Idle
    /\ t = NoCall
    /\ packetbuf = <<>>
    /\ answered = 0
    /\ enc = NoEncoding
    /\ ser = NoSerial
    /\ tr = NoTransportCall
    /\ dec = NoDecode
    /\ \E s \in Streams : rcv = [NoRecv EXCEPT !.stream = s]

\* no call of _recv is in progress
RecvOver == rcv.pc \in {"off", "returned", "raised"}

\* the next bytes of what the printer sends unasked reach the line
printer_push ==
    /\ op.name = "idle"
    /\ rcv.stream # <<>>
    /\ \E k \in Arrived(Len(rcv.stream)) \ {0} :
          /\ rx' = rx \o SubSeq(rcv.stream, 1, k)
          /\ rcv' = [rcv EXCEPT !.stream = SubSeq(rcv.stream, k + 1, Len(rcv.stream))]
    /\ UNCHANGED <<answered, packetbuf, dec, kind, closed, pending, wire, faults, op, t, enc, ser, tr>>

\* _recv is called: packets = [] and
\* self._packetbuf.extend(self._transport.read(1024))
recv_call ==
    /\ op.name = "idle" /\ t.pc = "off"
    /\ rcv.pc \in {"off", "returned"}
    /\ rcv.calls < MaxRecvCalls
    /\ \E r \in read_results(ReadSize) :
          /\ rx' = r.rest
          /\ IF r.exc # "none"
             THEN /\ rcv' = [rcv EXCEPT !.pc = "raised", !.exc = r.exc, !.calls = @ + 1]
                  /\ packetbuf' = packetbuf
             ELSE /\ rcv' = [rcv EXCEPT !.pc = "while", !.packets = <<>>, !.calls = @ + 1]
                  /\ packetbuf' = packetbuf \o r.data
    /\ UNCHANGED <<answered, dec, kind, closed, pending, wire, faults, op, t, enc, ser, tr>>

\* while len(self._packetbuf) > 4, and return packets when it is not
recv_while ==
    /\ rcv.pc = "while"
    /\ rcv' = [rcv EXCEPT !.pc = IF Len(packetbuf) > 4 THEN "body" ELSE "returned"]
    /\ UNCHANGED <<answered, packetbuf, dec, kind, closed, rx, pending, wire, faults, op, t, enc, ser, tr>>

\* the body of the loop: pkt_len = self._packetbuf[3] + 7 and, when the buffer
\* holds that many bytes, the frame is decoded, appended and deleted; when it
\* does not, the body does nothing
recv_body ==
    /\ rcv.pc = "body"
    /\ LET pkt_len == packetbuf[4] + 7 IN
       IF Len(packetbuf) >= pkt_len
       THEN IF FrameOk(SubSeq(packetbuf, 1, pkt_len))
            THEN /\ rcv' = [rcv EXCEPT !.pc = "while",
                              !.packets = Append(@, from_bytes(SubSeq(packetbuf, 1, pkt_len)))]
                 /\ packetbuf' = SubSeq(packetbuf, pkt_len + 1, Len(packetbuf))
            ELSE /\ rcv' = [rcv EXCEPT !.pc = "raised", !.exc = FrameError]
                 /\ packetbuf' = packetbuf
       ELSE /\ rcv' = [rcv EXCEPT !.pc = "while"]
            /\ packetbuf' = packetbuf
    /\ UNCHANGED <<answered, dec, kind, closed, rx, pending, wire, faults, op, t, enc, ser, tr>>

\* the client goes on to a request once no _recv is running
recv_then_get_info == RecvOver /\ call_get_info
recv_then_print_image == RecvOver /\ call_print_image

NextRecv ==
    \/ printer_push
    \/ recv_call
    \/ recv_while
    \/ recv_body
    \/ recv_then_get_info
    \/ recv_then_print_image
    \/ get_info_return
    \/ transceive_write
    \/ transceive_read_header
    \/ transceive_read_rest
    \/ print_image_step
    \/ send_row
    \/ printer_reply

\* the loop of _recv, once entered, keeps running
SpecRecv ==
    InitRecv /\ [][NextRecv]_vars /\ WF_vars(recv_while) /\ WF_vars(recv_body)

----------------------------------------------------------------------------
(* Claims about _transceive and print_image, checked under Spec *)

\* the write calls among the transport calls of the current _transceive call
Writes(ev) == Cardinality({i \in 1..Len(ev) : ev[i] = "w"})

\* C1: one call of _transceive makes at most 3 send/receive attempts, each
\* writing the request before it reads; a call that fails twice and then
\* succeeds returns the reply after exactly 3 attempts, and a call whose every
\* attempt fails returns no result after exactly 3 attempts.
C1_AtMostThreeAttempts ==
    /\ Writes(t.ev) <= 3
    /\ \A i \in 1..Len(t.ev) :
          t.ev[i] = "r" =>
              /\ i > 1
              /\ \/ t.ev[i - 1] = "w"
                 \/ i > 2 /\ t.ev[i - 1] = "r" /\ t.ev[i - 2] = "w"
    /\ t.pc = "returned" /\ t.result = <<>> =>
          /\ Writes(t.ev) = 3
          /\ t.why # "none"
    /\ t.pc = "returned" /\ t.result # <<>> =>
          /\ Writes(t.ev) = t.attempt + 1
          /\ t.ev[Len(t.ev)] = "r"

\* two attempts failed and the third returned the reply
C1_Witness ==
    /\ t.pc = "returned"
    /\ t.result # <<>>
    /\ t.attempt = 2
    /\ Writes(t.ev) = 3

\* the reply type the caller asked for
Expected == t.packet.type + t.respoffset

\* C2: _transceive returns a packet only when the received frame's type is
\* requestType + responseOffset; a received type 219, a received type 0 and
\* any other type than the expected one each fail the attempt and are never
\* returned.
C2_OnlyExpectedTypeReturned ==
    /\ t.result # <<>> =>
          /\ t.pc = "returned"
          /\ t.result = t.recv
          /\ t.result[1].type = Expected
          /\ t.result[1].type \notin {219, 0}
    /\ t.recv # <<>> =>
          /\ t.out # "none"
          /\ t.out = "ok" <=> (t.recv[1].type = Expected /\ t.recv[1].type \notin {219, 0})
          /\ t.out # "ok" => t.result = <<>> /\ t.why \in {"error", "unimplemented", "unexpected"}

\* a reply of type 219 came in answer to a request whose expected type is 219
C2_Witness ==
    /\ t.recv # <<>>
    /\ t.recv[1].type = 219
    /\ Expected = 219
    /\ t.out = "ValueError"

\* C3: every failure of an attempt inside _transceive (undecodable frame,
\* connection failure or short read, error, unimplemented or unexpected reply)
\* leads to a retry, and to a return of no result once the retries are
\* exhausted; none leaves _transceive as an exception.
C3_FailuresRetriedNeverRaised ==
    /\ t.pc # "raised"
    /\ t.exc = "none"
    /\ op.status = "raised" /\ op.step # "rows" =>
          op.exc \in {"AttributeError", "IndexError", "AssertionError"}
    /\ t.why # "none" =>
          /\ t.why \in {"write", "read", "header", "incomplete", "decode", "error",
                        "unimplemented", "unexpected"}
          /\ \/ t.pc = "write" /\ t.attempt \in {1, 2}
             \/ t.pc = "returned" /\ t.result = <<>> /\ t.attempt = 2

\* the third attempt, like the two before it, failed, this one on an
\* unimplemented reply, and the call returned no result
C3_Witness ==
    /\ t.pc = "returned"
    /\ t.result = <<>>
    /\ t.attempt = 2
    /\ t.why = "unimplemented"

\* the type byte of a write, when the write got that far
TypeOf(b) == IF Len(b) >= 3 THEN b[3] ELSE -1

\* a write that passed on a frame to its last byte
WholeFrame(b) == Len(b) >= 7 /\ Len(b) = b[4] + 7

\* the whole row packets written so far
RowsWritten == {i \in 1..Len(wire) : WholeFrame(wire[i]) /\ wire[i][3] = 133}

JobDone == op.name = "print_image" /\ op.status = "done"

\* C4: in every run of print_image that completes the commands reach the
\* transport in this order and no other: set density, set label type (type
\* code 1), start print, start page print, set dimensions, all row packets,
\* end page print; no row packet is written before set dimensions has been
\* answered, and end page print only after the last row packet.
C4_CommandOrder ==
    /\ JobDone =>
          LET h == op.image.height IN
          /\ Len(wire) = 5 + h + 1
          /\ \A i \in 1..Len(wire) : FrameOk(wire[i])
          /\ [i \in 1..Len(wire) |-> wire[i][3]]
                = <<33, 35, 1, 3, 19>> \o [y \in 1..h |-> 133] \o <<227>>
          /\ from_bytes(wire[2]).data = <<1>>
          /\ \A y \in 0..(h - 1) :
                256 * from_bytes(wire[6 + y]).data[1] + from_bytes(wire[6 + y]).data[2] = y
    /\ \A i \in 1..Len(wire) :
          /\ TypeOf(wire[i]) = 133 =>
                /\ op.step \in {"rows", "end_page_print", "done"}
                /\ \E j \in 1..(i - 1) : TypeOf(wire[j]) = 19
          /\ TypeOf(wire[i]) = 227 =>
                /\ Cardinality(RowsWritten) = op.image.height
                /\ \A j \in RowsWritten : j < i

\* a job completed although attempts had to be repeated on the way
C4_Witness ==
    /\ JobDone
    /\ faults = 3
    /\ kind = "serial"

\* C5 as stated: the command sequence of print_image includes an end print
\* command, sent after end page print.
C5_EndPrintSent ==
    JobDone =>
        \E i, j \in 1..Len(wire) : i < j /\ TypeOf(wire[i]) = 227 /\ TypeOf(wire[j]) = 243

\* C5 as amended: print_image never sends end print; the last command of a
\* completed job is end page print.
C5_EndPagePrintIsLast ==
    /\ \A i \in 1..Len(wire) : TypeOf(wire[i]) # 243
    /\ JobDone => wire # <<>> /\ TypeOf(wire[Len(wire)]) = 227

\* a job completed over TCP
C5_Witness ==
    /\ JobDone
    /\ kind = "tcp"
    /\ TypeOf(wire[Len(wire)]) = 227

SetupSteps ==
    {"set_label_density", "set_label_type", "start_print", "start_page_print",
     "set_dimension"}

\* a setup step's reply, of the expected type, carries the single byte zero
ZeroReply ==
    /\ op.name = "print_image" /\ op.status = "running"
    /\ op.step \in SetupSteps
    /\ t.pc = "returned"
    /\ t.result # <<>>
    /\ t.result[1].data = <<0>>

\* the step print_image is at after each setup step of an image with rows
Following(step) ==
    CASE step = "set_label_density" -> "set_label_type"
      [] step = "set_label_type" -> "start_print"
      [] step = "start_print" -> "start_page_print"
      [] step = "start_page_print" -> "set_dimension"
      [] step = "set_dimension" -> "rows"

\* C6: when a setup step of print_image receives a reply of the expected type
\* whose single payload byte is zero, print_image does not fail: it goes on
\* with the next step of the sequence.
C6_ZeroReplyNotEscalated ==
    [][ZeroReply /\ op' # op =>
          /\ op'.status = "running"
          /\ op'.step = Following(op.step)
          /\ op'.zero
          /\ op'.step # "rows" => t'.pc = "write" /\ t'.ev = <<>>]_vars

\* a job that got a zero reply at a setup step streamed every row and sent
\* end page print
C6_Witness ==
    /\ JobDone
    /\ op.zero
    /\ Cardinality(RowsWritten) = op.image.height
    /\ TypeOf(wire[Len(wire)]) = 227

----------------------------------------------------------------------------
(* Claims about the transports, checked under SpecTransport and SpecSerial *)

\* a call of write returned normally having passed on every byte, in order
WriteComplete == tr.total_sent = Len(tr.bytes) /\ tr.line = tr.bytes

\* C7 as stated: for both transport variants read(n) either returns exactly n
\* bytes or fails, and write(bytes) either sends all the bytes or fails; neither
\* variant returns fewer than n bytes from read as a normal result.
C7_BothVariantsExact ==
    tr.pc = "returned" =>
        /\ tr.call = "read" => Len(tr.data) = tr.length
        /\ tr.call = "write" => WriteComplete

\* C7 as amended: TCPTransport.read(n) returns exactly n bytes or fails and
\* write of either variant passes on all the bytes or fails, while
\* SerialTransport.read(n) returns at most n bytes, the first ones on the line,
\* and never fails on a short read.
C7_TcpExactSerialAtMost ==
    /\ tr.pc = "returned" /\ tr.call = "write" => WriteComplete
    /\ tr.pc = "returned" /\ tr.call = "read" /\ tr.variant = "tcp" =>
          /\ Len(tr.data) = tr.length
          /\ tr.data = Counting(tr.length)
    /\ tr.pc = "returned" /\ tr.call = "read" /\ tr.variant = "serial" =>
          /\ Len(tr.data) <= tr.length
          /\ tr.data = Counting(Len(tr.data))
    /\ tr.pc = "ConnectionError" =>
          /\ tr.variant = "tcp"
          /\ tr.call = "read" => Len(tr.data) < tr.length
          /\ tr.call = "write" => tr.total_sent < Len(tr.bytes)

\* a serial read came back, as a normal result, with fewer bytes than asked
C7_Witness ==
    /\ tr.pc = "returned" /\ tr.call = "read" /\ tr.variant = "serial"
    /\ tr.length = 3
    /\ Len(tr.data) = 1

\* C8: constructing a SerialTransport without an explicit device path
\* enumerates the serial devices; zero devices fail with a no-device error, two
\* or more fail with an error listing every candidate, exactly one is opened;
\* nothing is opened when it fails, and with an explicit path no enumeration
\* result makes it fail.
C8_SerialAutoDetection ==
    ser.pc \in {"open", "failed"} =>
        LET n == Len(ser.comports) IN
        /\ ser.port = "auto" /\ n = 0 =>
              /\ ser.pc = "failed"
              /\ ser.error = "No serial ports detected"
        /\ ser.port = "auto" /\ n >= 2 =>
              /\ ser.pc = "failed"
              /\ ser.error = "Too many serial ports, please select specific one:"
              /\ \A i \in 1..n : \E j \in 1..Len(ser.listed) : ser.listed[j] = ser.comports[i]
        /\ ser.port = "auto" /\ n = 1 =>
              /\ ser.pc = "open"
              /\ ser.opened = ser.comports[1][1]
        /\ ser.pc = "failed" => ser.opened = "none"
        /\ ser.port # "auto" => ser.pc = "open" /\ ser.opened = ser.port

\* auto-detection refused three candidates and listed them
C8_Witness ==
    /\ ser.port = "auto"
    /\ Len(ser.comports) = 3
    /\ ser.pc = "failed"
    /\ Len(ser.listed) = 3

----------------------------------------------------------------------------
(* Claims about _encode_image, checked under SpecEncode *)

\* ceil(w / 8), counted out rather than computed by division with rounding
CeilDiv8(w) == CHOOSE n \in 0..w : 8 * n >= w /\ 8 * (n - 1) < w

\* C9: for an image of width w and height h, _encode_image yields exactly h
\* packets of type 0x85; the k-th (from 0) carries k as a big-endian u16, three
\* zero bytes, a byte 1 and then exactly ceil(w/8) data bytes, for every w.
C9_RowPacketShape ==
    /\ Len(enc.out) = enc.y
    /\ enc.y <= enc.image.height
    /\ \A i \in 1..Len(enc.out) :
          LET data == enc.out[i].data
              k == i - 1
          IN /\ enc.out[i].type = 133
             /\ Len(data) = 6 + CeilDiv8(enc.image.width)
             /\ 256 * data[1] + data[2] = k
             /\ data[1] \in Byte /\ data[2] \in Byte
             /\ data[3] = 0 /\ data[4] = 0 /\ data[5] = 0
             /\ data[6] = 1
             /\ \A j \in 7..Len(data) : data[j] \in Byte

\* every row of an image whose width is not a multiple of 8 has been yielded
C9_Witness ==
    /\ enc.image.width = 9
    /\ enc.image.height = 2
    /\ enc.y = enc.image.height
    /\ Len(enc.out) = 2

\* bit b (0 = least significant) of a byte
BitOf(byte, b) == (byte \div (2 ^ b)) % 2

\* the source pixel (x, y) is black, which prints as ink
IsInk(image, x, y) == getpixel(image, x, y) = 0

\* C10: in every row packet the pixels are packed most-significant-bit-first:
\* for every width w and every column x < w, pixel x is bit 7 - (x mod 8) of
\* data byte floor(x/8), 1 for ink and 0 for blank, the padding bits following
\* the last pixel.
C10_PixelsLeftAligned ==
    \A i \in 1..Len(enc.out) :
       LET data == enc.out[i].data IN
       /\ \A x \in 0..(enc.image.width - 1) :
             BitOf(data[6 + (x \div 8) + 1], 7 - (x % 8))
                = (IF IsInk(enc.image, x, i - 1) THEN 1 ELSE 0)
       /\ \A x \in enc.image.width..(8 * (Len(data) - 6) - 1) :
             BitOf(data[6 + (x \div 8) + 1], 7 - (x % 8)) = 0

----------------------------------------------------------------------------
(* Claims about heartbeat and get_rfid, checked under SpecDecode *)

KnownLengths == {20, 19, 13, 10, 9}

FieldNames == {"closingstate", "powerlevel", "paperstate", "rfidreadstate"}

\* heartbeat has been through with a reply
HeartbeatDone == dec.call = "heartbeat" /\ dec.pc # "transceived" /\ dec.packet # <<>>

\* the payload of the reply being decoded
Payload == dec.packet[1].data

\* the payload byte at an offset counted from 0, as a field holds it
At(o) == <<Payload[o + 1]>>

\* C11 as stated: for each of the five known heartbeat payload lengths (20, 19,
\* 13, 10, 9) heartbeat returns all four fields closing-state, power-level,
\* paper-state and RFID-read-state, each taken from its own byte offset of the
\* payload.
C11_AllFourFieldsOwnOffset ==
    HeartbeatDone /\ Len(Payload) \in KnownLengths =>
        /\ dec.pc = "returned"
        /\ \A f \in FieldNames :
              /\ dec.result[1][f] # Unset
              /\ \E o \in 0..(Len(Payload) - 1) : dec.result[1][f] = At(o)
        /\ \A f, g \in FieldNames : f # g => dec.result[1][f] # dec.result[1][g]

\* C11 as amended: heartbeat returns all four fields, from four offsets, only
\* for payloads of 13 bytes (offsets 9, 10, 11, 12) and 19 bytes (15, 16, 17,
\* 18); of a 20-byte payload it returns paper-state (18) and RFID-read-state
\* (19), of a 10-byte payload closing-state (8), power-level (9) and
\* RFID-read-state (8 again), of a 9-byte payload closing-state (8), and the
\* other fields unset.
C11_FieldsPerLength ==
    HeartbeatDone /\ Len(Payload) \in KnownLengths =>
        /\ dec.pc = "returned"
        /\ LET v == dec.result[1]
               n == Len(Payload)
           IN /\ n = 13 => v = [closingstate |-> At(9), powerlevel |-> At(10),
                                paperstate |-> At(11), rfidreadstate |-> At(12)]
              /\ n = 19 => v = [closingstate |-> At(15), powerlevel |-> At(16),
                                paperstate |-> At(17), rfidreadstate |-> At(18)]
              /\ n = 20 => v = [closingstate |-> Unset, powerlevel |-> Unset,
                                paperstate |-> At(18), rfidreadstate |-> At(19)]
              /\ n = 10 => v = [closingstate |-> At(8), powerlevel |-> At(9),
                                paperstate |-> Unset, rfidreadstate |-> At(8)]
              /\ n = 9 => v = [closingstate |-> At(8), powerlevel |-> Unset,
                               paperstate |-> Unset, rfidreadstate |-> Unset]

\* a 20-byte payload was decoded: closing-state and power-level stayed unset
C11_Witness ==
    /\ HeartbeatDone /\ dec.pc = "returned"
    /\ Len(Payload) = 20
    /\ dec.result[1].closingstate = Unset
    /\ dec.result[1].powerlevel = Unset
    /\ dec.result[1].rfidreadstate = At(19)

\* C12: for a heartbeat reply whose payload length is none of 20, 19, 13, 10, 9
\* (15, say, or 0) heartbeat does not fail and returns closing-state,
\* power-level, paper-state and RFID-read-state all unset.
C12_UnknownLengthAllUnset ==
    HeartbeatDone /\ Len(Payload) \notin KnownLengths =>
        /\ dec.pc = "returned"
        /\ dec.exc = "none"
        /\ Len(dec.result) = 1
        /\ \A f \in FieldNames : dec.result[1][f] = Unset

\* a 15-byte payload was decoded
C12_Witness ==
    /\ HeartbeatDone /\ dec.pc = "returned"
    /\ Len(Payload) = 15
    /\ dec.result[1].paperstate = Unset

\* get_rfid has been through with a reply that has a payload
RfidDone ==
    dec.call = "get_rfid" /\ dec.pc # "transceived" /\ dec.packet # <<>> /\ Payload # <<>>

\* the number a hexadecimal digit stands for
HexValue(c) == CHOOSE i \in 0..15 : HexDigits[i + 1] = c

\* the bytes a text of hexadecimal digits spells
unhex(text) ==
    [i \in 1..(Len(text) \div 2) |-> 16 * HexValue(text[2 * i - 1]) + HexValue(text[2 * i])]

\* C13: get_rfid returns a null result whenever the reply payload's first byte
\* is zero; a payload built from a UUID (first byte not zero), a barcode, a
\* serial and the trailer values total length, used length and tag type decodes
\* back to exactly those values.
C13_RfidNullOrRoundTrip ==
    RfidDone =>
        /\ Payload[1] = 0 => dec.pc = "returned" /\ dec.result = <<>>
        /\ Payload[1] # 0 /\ dec.known # <<>> =>
              /\ dec.pc = "returned"
              /\ Len(dec.result) = 1
              /\ LET v == dec.result[1]
                     k == dec.known[1]
                 IN /\ Len(v.uuid) = 16
                    /\ unhex(v.uuid) = k.uuid
                    /\ v.barcode = k.barcode
                    /\ v.serial = k.serial
                    /\ v.total_len = k.total_len
                    /\ v.used_len = k.used_len
                    /\ v.type = k.type

\* a reply built from a two-character barcode and a two-character serial was
\* decoded
C13_Witness ==
    /\ RfidDone /\ dec.pc = "returned"
    /\ dec.known # <<>>
    /\ dec.result # <<>>
    /\ Len(dec.result[1].barcode) = 2
    /\ Len(dec.result[1].serial) = 2
    /\ dec.result[1].used_len = 4096

----------------------------------------------------------------------------
(* Claims about the sequencing of requests, checked under Spec *)

\* a _transceive call begins in this step
CallBegins == t' # t /\ t'.pc = "write" /\ t'.ev = <<>> /\ t'.attempt = 0

\* the _transceive call that is over returned a whole reply of its expected type
ResponseRead ==
    /\ t.pc = "returned"
    /\ t.result # <<>>
    /\ t.result[1].type = t.respcode
    /\ t.ev[Len(t.ev)] = "r"

RowWindow ==
    /\ op.name = "print_image" /\ op.status = "running"
    /\ \/ op.step = "rows"
       \/ op.step = "set_dimension" /\ t.pc = "returned" /\ t.result # <<>>

\* the frame of the row print_image is about to send
NextRowFrame == to_bytes(encode_row(op.image, op.y))

\* C17: row packets are fire-and-forget: between the reply to set dimensions
\* and the end page print request the client reads nothing from the transport
\* and writes only row packets, one write for each row in ascending order, a
\* failed write ending the job instead of being repeated.
C17_RowsFireAndForget ==
    [][RowWindow =>
          /\ op.step = "rows" => t = NoCall /\ Cardinality(RowsWritten) = op.y
          /\ Len(rx') >= Len(rx) /\ SubSeq(rx', 1, Len(rx)) = rx
          /\ t' = t \/ t'.ev = <<>>
          /\ op.step = "set_dimension" => wire' = wire
          /\ (wire' # wire \/ op' # op) /\ op.step = "rows" =>
                \/ /\ wire' = Append(wire, NextRowFrame)
                   /\ op'.status = "running"
                   /\ op'.y = op.y + 1
                   /\ op'.step = IF op'.y < op.image.height THEN "rows" ELSE "end_page_print"
                   /\ t' = IF op'.step = "rows" THEN NoCall ELSE end_page_print.call
                \/ /\ op'.status = "raised" /\ op'.exc = "ConnectionError"
                   /\ op'.y = op.y
                   /\ \E k \in 0..(Len(NextRowFrame) - 1) :
                         wire' = Logged(wire, SubSeq(NextRowFrame, 1, k))
       ]_vars

\* both rows went out, one write each, and end page print is about to be sent
C17_Witness ==
    /\ op.name = "print_image" /\ op.status = "running"
    /\ op.step = "end_page_print" /\ t.pc = "write" /\ t.ev = <<>>
    /\ op.y = 2
    /\ Len(wire) = 7
    /\ TypeOf(wire[6]) = 133 /\ TypeOf(wire[7]) = 133

\* C18: the set dimensions request print_image sends for an image of width w
\* and height h with c copies carries the payload (h, w, c) in this order, the
\* height first, each number a big-endian u16.
C18_DimensionsHeightFirst ==
    \A i \in 1..Len(wire) :
       TypeOf(wire[i]) = 19 /\ WholeFrame(wire[i]) =>
          LET h == op.image.height
              w == op.image.width
              c == op.copies
          IN /\ wire[i][4] = 6
             /\ 256 * wire[i][5] + wire[i][6] = h
             /\ 256 * wire[i][7] + wire[i][8] = w
             /\ 256 * wire[i][9] + wire[i][10] = c
             /\ \A j \in 5..10 : wire[i][j] \in Byte

\* the set dimensions request of an image 9 wide and 2 high went out and was
\* answered
C18_Witness ==
    /\ op.name = "print_image" /\ op.step = "rows"
    /\ op.image.width = 9 /\ op.image.height = 2
    /\ Len(wire) >= 5
    /\ TypeOf(wire[5]) = 19 /\ WholeFrame(wire[5])

----------------------------------------------------------------------------
(* Claims about the loops of TCPTransport, checked under SpecTransportLive *)

TcpCall == tr.variant = "tcp" /\ tr.pc # "off"

\* recv has nothing to return yet: the line is empty and the peer still there
RecvBlocked == tr.call = "read" /\ tr.pc = "recv" /\ tr.line = <<>> /\ ~tr.eof

\* what holds of a TCP read or write at every point of its loop
TcpLoopInvariant ==
    TcpCall =>
        /\ tr.call = "read" =>
              /\ Len(tr.data) <= tr.length
              /\ tr.data \o tr.line = Counting(Len(tr.data) + Len(tr.line))
              /\ tr.chunks <= Len(tr.data)
              /\ tr.pc = "returned" => Len(tr.data) = tr.length
              /\ tr.pc = "ConnectionError" => Len(tr.data) < tr.length /\ tr.line = <<>> /\ tr.eof
        /\ tr.call = "write" =>
              /\ tr.total_sent <= Len(tr.bytes)
              /\ tr.line = SubSeq(tr.bytes, 1, tr.total_sent)
              /\ tr.chunks <= tr.total_sent
              /\ tr.pc = "returned" => tr.total_sent = Len(tr.bytes)
              /\ tr.pc = "ConnectionError" => tr.total_sent < Len(tr.bytes) /\ tr.room = 0

\* a zero-byte result of the primitive ends the call at once
ZeroResultFails ==
    /\ TcpCall /\ tr.call = "read" /\ tr.pc = "recv" /\ tr.line = <<>> /\ tr.eof
          => tr'.pc = "ConnectionError"
    /\ TcpCall /\ tr.call = "write" /\ tr.pc = "send" /\ tr.room = 0
          => tr'.pc = "ConnectionError"

\* C16: for any split of the bytes into non-empty chunks TCPTransport.read(n)
\* ends having returned exactly n bytes, the chunks in order and never more
\* than n, TCPTransport.write(data) ends having sent every byte of data once
\* and in order, and either fails with ConnectionError as soon as the socket
\* primitive reports a zero-byte result.
C16_TcpLoopsTerminateExact ==
    /\ []TcpLoopInvariant
    /\ [][ZeroResultFails]_vars
    /\ <>(TcpCall => tr.pc \in {"returned", "ConnectionError"} \/ RecvBlocked)

\* a read of 3 bytes came back after three chunks of one byte, a fourth byte
\* left on the line
C16_Witness ==
    /\ TcpCall /\ tr.call = "read" /\ tr.pc = "returned"
    /\ tr.length = 3 /\ tr.chunks = 3
    /\ tr.data = <<1, 2, 3>>
    /\ tr.line = <<4>>

----------------------------------------------------------------------------
(* Claims about _recv and the accumulation buffer, checked under SpecRecv *)

\* the client is in a request-issuing operation, or entering or leaving one
InRequestPath == op.name # "idle" \/ t.pc # "off" \/ op' # op \/ t' # t

\* C15: the accumulation buffer is used only by _recv: _transceive, _send and
\* the request-issuing operations built on them leave it as it is, whether the
\* attempt succeeds, is retried or exhausts its retries.
C15_BufferOnlyUsedByRecv ==
    [][/\ InRequestPath => packetbuf' = packetbuf
       /\ packetbuf' # packetbuf => rcv' # rcv /\ rcv.pc \in {"off", "returned", "body"}
      ]_vars

\* a request exhausted its retries while the buffer held the first bytes of a
\* frame an earlier _recv had read
C15_Witness ==
    /\ t.pc = "returned"
    /\ t.result = <<>>
    /\ t.attempt = 2
    /\ packetbuf = <<85, 85>>

\* C19: _recv always terminates: after its one transport read, whatever the
\* buffer holds (more than 4 bytes but only part of a frame included), it
\* returns the whole frames at the front of the buffer and leaves the bytes of
\* an incomplete last frame in the buffer for the next call.
C19_RecvTerminates ==
    /\ [](rcv.pc \in {"while", "body"} => <>(rcv.pc \in {"returned", "raised"}))
    /\ [](rcv.pc = "returned" =>
             \/ Len(packetbuf) < 4
             \/ Len(packetbuf) < packetbuf[4] + 7)

----------------------------------------------------------------------------
(* Claim about frame alignment, checked under SpecAligned *)

\* the bytes are whole frames one after another: each begins with the magic
\* and is as long as its length byte says
RECURSIVE WholeFrames(_)
WholeFrames(b) ==
    \/ b = <<>>
    \/ /\ Len(b) >= 7
       /\ b[1] = 85 /\ b[2] = 85
       /\ Len(b) >= b[4] + 7
       /\ WholeFrames(SubSeq(b, b[4] + 8, Len(b)))

\* C20: frame alignment is preserved across attempts: when the printer sends
\* only well-formed frames, over TCP and over serial (reads that time out and
\* return fewer bytes than asked included) every attempt of _transceive
\* begins its 4-byte header read at a frame boundary of the incoming bytes.
C20_HeaderReadAtFrameBoundary ==
    t.pc = "header" => WholeFrames(rx)

----------------------------------------------------------------------------
(* Claim about leftover replies, checked under SpecStale *)

\* the number of the first request written during the current _transceive
\* call: the requests the printer has received less the writes of this call
FirstOfCall == Received - Writes(t.ev) + 1

\* C21: over any sequence of request-issuing operations, with a printer that
\* answers every request it receives exactly once, possibly late, every packet
\* a _transceive call returns is the printer's answer to a request written
\* during that same call, never a leftover answer to a request of an earlier
\* operation that was still unread in the transport.
C21_NoStaleReplyReturned ==
    t.pc = "returned" /\ t.result # <<>> =>
        /\ t.result[1].data[1] >= FirstOfCall
        /\ t.result[1].data[1] <= Received

====
